---- MODULE Spec2Model ----
(***************************************************************************)
(* The live block monitor of go-eth-demo/examples/06-subscribe             *)
(* (advanced_block_monitor.go): the main goroutine, the ingestion          *)
(* goroutine (Start / processBlock), the reporter goroutine                *)
(* (PeriodicReport) and the environment (chain heads, fetch results,       *)
(* transport errors, OS signals).                                          *)
(*                                                                         *)
(* Units: timestamps are whole seconds (header.Time); a time.Duration is   *)
(* counted in seconds, which is exact for every BlockTime the code         *)
(* computes (a difference of two whole-second instants); the average of    *)
(* line 300 is the same truncating division, taken to the second.          *)
(***************************************************************************)
EXTENDS Integers, Sequences, FiniteSets, TLC

VARIABLES
    stats,          \* m.stats (*MonitorStats)
    blockHistory,   \* m.blockHistory
    ctxDone,        \* m.ctx has been cancelled
    pcMain,         \* position of the main goroutine
    pcIngest,       \* position of the goroutine running Start()
    pcReport,       \* position of the goroutine running PeriodicReport()
    exited,         \* the process has exited (main returned, or log.Fatalf)
    sigChan,        \* number of signals buffered in sigChan (capacity 1)
    sub,            \* the subscription handle: "none", "live", "closed"
    subErr,         \* an error is pending on sub.Err()
    cur,            \* the header processBlock is working on, <<>> when none
    blockInfo,      \* the local blockInfo of processBlock, <<>> when none
    alerts,         \* lines printed by checkAlerts: <<rule name, block number>>
    lastReport,     \* what the latest generateReport printed, <<>> when none
    finalReports,   \* snapshots printed by generateFinalReport
    stopCalls,      \* number of calls of Stop() so far
    delivered,      \* ghost: number of headers delivered on the headers channel
    fetchLog,       \* ghost: every BlockByHash call that returned, in order:
                    \*        [header, ok]
    folded,         \* ghost: records passed to updateStats, in order
    inserted        \* ghost: number of addToHistory calls

\* The state of the advanced block monitor.
monVars == <<stats, blockHistory, ctxDone, pcMain, pcIngest, pcReport, exited,
             sigChan, sub, subErr, cur, blockInfo, alerts, lastReport,
             finalReports, stopCalls, delivered, fetchLog, folded, inserted>>

VARIABLES
    evaluated,      \* checkAlerts has run on the drawn record
    twinHistory,    \* m.blockHistory of a second monitor with another past
    twinAlerts      \* lines printed by checkAlerts of that second monitor

\* The state of the alert-engine specification besides the monitor's.
alertVars == <<evaluated, twinHistory, twinAlerts>>

\* The basic subscriber (block_subscribe.go).
VARIABLES
    bsCtxDone,      \* cancel() of main's context has been called
    bsMain,         \* position of main
    bsSig,          \* signals buffered in sigChan
    bsExited,       \* the process has ended
    bsSubs,         \* the subscribeNewHeads goroutines, in order of creation
    bsStats,        \* *BlockStats shared by main and the goroutines
    bsFinal,        \* what displayFinalStats printed, one entry per call
    bsFatal,        \* log.Fatalf ended the process
    bsErrors,       \* transport errors so far
    bsHeaders,      \* heads delivered so far
    bsAnalyzed      \* analyzeBlock calls so far

subVars == <<bsCtxDone, bsMain, bsSig, bsExited, bsSubs, bsStats, bsFinal,
             bsFatal, bsErrors, bsHeaders, bsAnalyzed>>

\* All state outside the advanced block monitor.
\* The two polling loops: the polling block monitor (part_006) and the
\* polling mode of the event monitor (live_event_monitor.go).
VARIABLES
    chainHead,      \* the block number the node answers BlockNumber with
    pbLast,         \* lastBlockNumber
    pbCount,        \* blockCount
    pbRunning,      \* the loop of the block monitor has not returned
    pbSig,          \* signals buffered in its sigChan
    pbReported,     \* the block count printed at shutdown
    pbProcessed,    \* the processBlock calls so far, in order
    pbTickWork,     \* the processBlock calls of the latest tick
    evLast,         \* lastCheckedBlock
    evRunning,      \* runPollingMode has not returned
    evSig,          \* signals buffered in its sigChan
    evQueries,      \* the FilterLogs queries that succeeded, in order
    evMissed        \* blocks that were waiting when a request failed

pbVars == <<pbLast, pbCount, pbRunning, pbSig, pbReported, pbProcessed,
            pbTickWork>>

evVars == <<evLast, evRunning, evSig, evQueries, evMissed>>

pollVars == <<chainHead, pbVars, evVars>>

\* calculateAverageGasPrice applied to the transactions of one block.
VARIABLES
    gpTxs,          \* tx.GasPrice() of the block's transactions, in order
    gpDone,         \* calculateAverageGasPrice has returned
    gpResult        \* what it returned

gasVars == <<gpTxs, gpDone, gpResult>>

extVars == <<alertVars, subVars, pollVars, gasVars>>

vars == <<monVars, extVars>>

(***************************************************************************)
(* Bounds of the model.                                                    *)
(***************************************************************************)
MaxHeaders == 3      \* headers the subscription delivers in one session
MaxStops == 2        \* calls of Stop() by a caller of the BlockMonitor API
MaxInserts == 105    \* addToHistory calls of the history-window specification
MaxSubErrors == 3    \* transport errors of one session of the basic subscriber
MaxPollHead == 107   \* the highest block number the chain reaches while polled
MaxTxs == 3          \* transactions of the block given to calculateAverageGasPrice
MaxBothHead == 103   \* the highest block number while both polling loops run

(***************************************************************************)
(* Program constants.                                                      *)
(***************************************************************************)
HistoryCap == 100            \* len(m.blockHistory) > 100
InitMinTxsPerBlock == 999999 \* MinTxsPerBlock: 999999
\* ^uint64(0); TLC's integers are 32 bits wide, so the largest of
\* them stands for the largest uint64. It is only ever compared.
MaxUint64 == 2147483647
HighTxThreshold == 200       \* block.TxCount > 200
LongIntervalSeconds == 20    \* block.BlockTime > 20*time.Second
\* The zero time.Time (January 1, year 1), which no header.Time of the model
\* denotes: time.Unix(sec, 0).IsZero() is false for every sec >= 0.
ZeroTime == -1
LookBack == 5                \* if toBlock-fromBlock > 5 { fromBlock = toBlock - 5 }
\* latestBlock, the answer of BlockNumber when a polling program starts
StartBlock == 100

IsZero(t) == t = ZeroTime

(***************************************************************************)
(* The environment's inputs: the heads a node may announce. A re-org       *)
(* announces a block number again, so numbers repeat and go backwards.     *)
(* TxCount is len(block.Transactions()) of the block the header's hash     *)
(* names.                                                                  *)
(***************************************************************************)
\* Block 1 is empty; block 2, thirty seconds later, is busy and nearly full.
Headers ==
    { [Number |-> 1, Time |-> 10, TxCount |-> 0, GasUsed |-> 0,
       GasLimit |-> 100],
      [Number |-> 2, Time |-> 40, TxCount |-> 250, GasUsed |-> 96,
       GasLimit |-> 100] }

NoHeader == <<>>

(***************************************************************************)
(* NewBlockMonitor: the MonitorStats and the history of a new monitor.     *)
(***************************************************************************)
NewMonitorStats ==
    [ BlockCount       |-> 0,
      TotalTxs         |-> 0,
      TotalGasUsed     |-> 0,
      MaxTxsPerBlock   |-> 0,
      MinTxsPerBlock   |-> InitMinTxsPerBlock,
      MaxGasUsage      |-> 0,
      MinGasUsage      |-> MaxUint64,
      AverageBlockTime |-> 0,
      LastBlockTime    |-> ZeroTime ]

(***************************************************************************)
(* processBlock, lines 210-231: the interval to the previously processed   *)
(* block and the BlockInfo built from the header and the fetched block.    *)
(***************************************************************************)
BlockTimeOf(header, st) ==
    IF ~IsZero(st.LastBlockTime) THEN header.Time - st.LastBlockTime ELSE 0

NewBlockInfo(header, blockTime) ==
    [ Number    |-> header.Number,
      Timestamp |-> header.Time,
      TxCount   |-> header.TxCount,
      GasUsed   |-> header.GasUsed,
      GasLimit  |-> header.GasLimit,
      BlockTime |-> blockTime ]

(***************************************************************************)
(* updateStats. The goroutines share m.stats without a lock, so the        *)
(* counter increment of line 271 and the rest of the function are separate *)
(* steps of the ingestion goroutine.                                       *)
(***************************************************************************)
RECURSIVE SumBlockTime(_)
SumBlockTime(h) ==
    IF h = <<>> THEN 0
    ELSE (IF Head(h).BlockTime > 0 THEN Head(h).BlockTime ELSE 0)
         + SumBlockTime(Tail(h))

RECURSIVE CountBlockTime(_)
CountBlockTime(h) ==
    IF h = <<>> THEN 0
    ELSE (IF Head(h).BlockTime > 0 THEN 1 ELSE 0) + CountBlockTime(Tail(h))

\* lines 289-302
AverageBlockTimeOf(st, history) ==
    IF st.BlockCount > 1 /\ Len(history) > 0 /\ CountBlockTime(history) > 0
    THEN SumBlockTime(history) \div CountBlockTime(history)
    ELSE st.AverageBlockTime

\* line 271
updateStatsCount(st) == [st EXCEPT !.BlockCount = @ + 1]

\* An updateStats that assigns the totals instead of adding to them.
updateStatsRestOverwriting(st, block, history) ==
    LET s1 == [st EXCEPT
                 !.TotalTxs = block.TxCount,
                 !.TotalGasUsed = block.GasUsed,
                 !.MaxTxsPerBlock = IF block.TxCount > @ THEN block.TxCount ELSE @,
                 !.MinTxsPerBlock = IF block.TxCount < @ THEN block.TxCount ELSE @,
                 !.MaxGasUsage = IF block.GasUsed > @ THEN block.GasUsed ELSE @,
                 !.MinGasUsage = IF block.GasUsed < @ THEN block.GasUsed ELSE @]
    IN [s1 EXCEPT !.AverageBlockTime = AverageBlockTimeOf(s1, history)]

\* lines 272-302
updateStatsRest(st, block, history) ==
    LET s1 == [st EXCEPT
                 !.TotalTxs = @ + block.TxCount,
                 !.TotalGasUsed = @ + block.GasUsed,
                 !.MaxTxsPerBlock = IF block.TxCount > @ THEN block.TxCount ELSE @,
                 !.MinTxsPerBlock = IF block.TxCount < @ THEN block.TxCount ELSE @,
                 !.MaxGasUsage = IF block.GasUsed > @ THEN block.GasUsed ELSE @,
                 !.MinGasUsage = IF block.GasUsed < @ THEN block.GasUsed ELSE @]
    IN [s1 EXCEPT !.AverageBlockTime = AverageBlockTimeOf(s1, history)]

(***************************************************************************)
(* addToHistory.                                                           *)
(***************************************************************************)
addToHistoryNoEvict(history, block) == Append(history, block)

addToHistoryDropNewest(history, block) ==
    LET h == Append(history, block)
    IN IF Len(h) > HistoryCap THEN SubSeq(h, 1, Len(h) - 1) ELSE h

addToHistory(history, block) ==
    LET h == Append(history, block)
    IN IF Len(h) > HistoryCap THEN Tail(h) ELSE h

(***************************************************************************)
(* SetupAlertRules and checkAlerts. A rule is named by its position in     *)
(* m.alertRules. The gas rule compares float64(GasUsed)/float64(GasLimit)  *)
(* with 0.95; for the gas figures of the model that is the integer         *)
(* comparison below.                                                       *)
(***************************************************************************)
AlertRules == <<"HighTx", "HighGas", "LongInterval", "EmptyBlock">>

\* Rules whose thresholds are reached rather than exceeded.
ConditionInclusive(rule, block, st) ==
    CASE rule = "HighTx"       -> block.TxCount >= HighTxThreshold
      [] rule = "HighGas"      -> block.GasUsed * 100 >= 95 * block.GasLimit
      [] rule = "LongInterval" -> block.BlockTime >= LongIntervalSeconds
      [] rule = "EmptyBlock"   -> block.TxCount = 0

Condition(rule, block, st) ==
    CASE rule = "HighTx"       -> block.TxCount > HighTxThreshold
      [] rule = "HighGas"      -> block.GasUsed * 100 > 95 * block.GasLimit
      [] rule = "LongInterval" -> block.BlockTime > LongIntervalSeconds
      [] rule = "EmptyBlock"   -> block.TxCount = 0

\* A loop that stops at the first rule that fires.
RECURSIVE checkAlertsFromFirstOnly(_, _, _)
checkAlertsFromFirstOnly(rules, block, st) ==
    IF rules = <<>> THEN <<>>
    ELSE IF Condition(Head(rules), block, st)
         THEN << <<Head(rules), block.Number>> >>
         ELSE checkAlertsFromFirstOnly(Tail(rules), block, st)

RECURSIVE checkAlertsFrom(_, _, _)
checkAlertsFrom(rules, block, st) ==
    IF rules = <<>> THEN <<>>
    ELSE (IF Condition(Head(rules), block, st)
          THEN << <<Head(rules), block.Number>> >> ELSE <<>>)
         \o checkAlertsFrom(Tail(rules), block, st)

checkAlerts(block, st) == checkAlertsFrom(AlertRules, block, st)

\* A monitor that also consults its history window when it checks a block.
checkAlertsOnWithHistory(m, block) ==
    checkAlerts(block, m.stats)
    \o (IF Len(m.blockHistory) > 0 /\ Condition("HighTx", block, m.stats)
        THEN << <<"Repeat", block.Number>> >> ELSE <<>>)

\* func (m *BlockMonitor) checkAlerts(block): of the receiver m the loop
\* reads m.alertRules and m.stats, and nothing else.
checkAlertsOn(m, block) == checkAlerts(block, m.stats)

(***************************************************************************)
(* What a report prints of the shared state.                               *)
(***************************************************************************)
\* generateReport and displayRecentBlocksStats
ReportSnapshot(st, history) ==
    [ BlockCount |-> st.BlockCount,
      TotalTxs   |-> st.TotalTxs,
      HistoryLen |-> Len(history) ]

\* generateFinalReport
FinalSnapshot(st) ==
    [ BlockCount   |-> st.BlockCount,
      TotalTxs     |-> st.TotalTxs,
      TotalGasUsed |-> st.TotalGasUsed ]

(***************************************************************************)
(* Init: main has built the monitor, installed the signal handler and      *)
(* started the two goroutines (lines 79-100); it waits on sigChan.         *)
(***************************************************************************)
AlertInit ==
    /\ evaluated = FALSE
    /\ twinHistory = <<>>
    /\ twinAlerts = <<>>

\* block_subscribe.go: main has started the first subscribeNewHeads
\* goroutine (line 85) and waits on sigChan.
NewSubscriber == [pc |-> "subscribe", handle |-> "none", err |-> FALSE,
                  cur |-> NoHeader]

SubInit ==
    /\ bsCtxDone = FALSE
    /\ bsMain = "wait"
    /\ bsSig = 0
    /\ bsExited = FALSE
    /\ bsSubs = <<NewSubscriber>>
    /\ bsStats = [BlockCount |-> 0, TotalTxs |-> 0, TotalGasUsed |-> 0]
    /\ bsFinal = <<>>
    /\ bsFatal = FALSE
    /\ bsErrors = 0
    /\ bsHeaders = 0
    /\ bsAnalyzed = 0

\* Both polling programs have read the head (part_006 lines 46-64,
\* live_event_monitor.go lines 206-210) and wait for their first tick.
PollInit ==
    /\ chainHead = StartBlock
    /\ pbLast = StartBlock
    /\ pbCount = 0
    /\ pbRunning = TRUE
    /\ pbSig = 0
    /\ pbReported = <<>>
    /\ pbProcessed = <<>>
    /\ pbTickWork = <<>>
    /\ evLast = StartBlock
    /\ evRunning = TRUE
    /\ evSig = 0
    /\ evQueries = <<>>
    /\ evMissed = {}

\* No block has been given to calculateAverageGasPrice.
GasInit ==
    /\ gpTxs = <<>>
    /\ gpDone = FALSE
    /\ gpResult = 0

ExtInit == AlertInit /\ SubInit /\ PollInit /\ GasInit

Init ==
    /\ ExtInit
    /\ stats = NewMonitorStats
    /\ blockHistory = <<>>
    /\ ctxDone = FALSE
    /\ pcMain = "wait"
    /\ pcIngest = "start"
    /\ pcReport = "wait"
    /\ exited = FALSE
    /\ sigChan = 0
    /\ sub = "none"
    /\ subErr = FALSE
    /\ cur = NoHeader
    /\ blockInfo = <<>>
    /\ alerts = <<>>
    /\ lastReport = <<>>
    /\ finalReports = <<>>
    /\ stopCalls = 0
    /\ delivered = 0
    /\ fetchLog = <<>>
    /\ folded = <<>>
    /\ inserted = 0

\* The receiver m of the BlockMonitor methods.
monitor == [stats |-> stats, blockHistory |-> blockHistory]

\* The subscription is established and Start has not returned.
Running == pcIngest \notin {"start", "done"}

(***************************************************************************)
(* The environment.                                                        *)
(***************************************************************************)
\* The OS raises SIGINT or SIGTERM; signal.Notify does not block: with the
\* one-slot sigChan full the signal is dropped.
Signal ==
    /\ ~exited
    /\ sigChan' = 1
    /\ UNCHANGED <<extVars, stats, blockHistory, ctxDone, pcMain, pcIngest, pcReport,
                   exited, sub, subErr, cur, blockInfo, alerts, lastReport,
                   finalReports, stopCalls, delivered, fetchLog, folded,
                   inserted>>

\* The transport fails: an error becomes ready on sub.Err().
TransportError ==
    /\ ~exited
    /\ sub = "live"
    /\ ~subErr
    /\ subErr' = TRUE
    /\ UNCHANGED <<extVars, stats, blockHistory, ctxDone, pcMain, pcIngest, pcReport,
                   exited, sigChan, sub, cur, blockInfo, alerts, lastReport,
                   finalReports, stopCalls, delivered, fetchLog, folded,
                   inserted>>

(***************************************************************************)
(* The main goroutine: main, lines 102-106, and Stop.                      *)
(***************************************************************************)
\* <-sigChan
MainRecvSignal ==
    /\ ~exited
    /\ pcMain = "wait"
    /\ sigChan = 1
    /\ sigChan' = 0
    /\ pcMain' = "stop"
    /\ UNCHANGED <<extVars, stats, blockHistory, ctxDone, pcIngest, pcReport, exited,
                   sub, subErr, cur, blockInfo, alerts, lastReport,
                   finalReports, stopCalls, delivered, fetchLog, folded,
                   inserted>>

\* Stop, line 424: m.cancel()
StopCancel ==
    /\ ~exited
    /\ pcMain = "stop"
    /\ ctxDone' = TRUE
    /\ stopCalls' = stopCalls + 1
    /\ pcMain' = "final"
    /\ UNCHANGED <<extVars, stats, blockHistory, pcIngest, pcReport, exited, sigChan,
                   sub, subErr, cur, blockInfo, alerts, lastReport,
                   finalReports, delivered, fetchLog, folded, inserted>>

\* Stop, line 425: m.generateFinalReport()
generateFinalReport ==
    /\ ~exited
    /\ pcMain = "final"
    /\ finalReports' = Append(finalReports, FinalSnapshot(stats))
    /\ pcMain' = "return"
    /\ UNCHANGED <<extVars, stats, blockHistory, ctxDone, pcIngest, pcReport, exited,
                   sigChan, sub, subErr, cur, blockInfo, alerts, lastReport,
                   stopCalls, delivered, fetchLog, folded, inserted>>

\* A variant of MainExit in which main waits for the next signal instead of
\* returning.
MainWaitAgain ==
    /\ ~exited
    /\ pcMain = "return"
    /\ pcMain' = "wait"
    /\ UNCHANGED <<extVars, stats, blockHistory, ctxDone, pcIngest, pcReport, exited,
                   sigChan, sub, subErr, cur, blockInfo, alerts, lastReport,
                   finalReports, stopCalls, delivered, fetchLog, folded,
                   inserted>>

\* main returns (the deferred monitor.Close runs): the process ends, and its
\* goroutines with it.
MainExit ==
    /\ ~exited
    /\ pcMain = "return"
    /\ exited' = TRUE
    /\ pcMain' = "exited"
    /\ UNCHANGED <<extVars, stats, blockHistory, ctxDone, pcIngest, pcReport, sigChan,
                   sub, subErr, cur, blockInfo, alerts, lastReport,
                   finalReports, stopCalls, delivered, fetchLog, folded,
                   inserted>>

\* A caller of the BlockMonitor API calls Stop() once more after Stop()
\* returned (main itself calls it once).
StopAgain ==
    /\ ~exited
    /\ pcMain = "return"
    /\ stopCalls < MaxStops
    /\ pcMain' = "stop"
    /\ UNCHANGED <<extVars, stats, blockHistory, ctxDone, pcIngest, pcReport, exited,
                   sigChan, sub, subErr, cur, blockInfo, alerts, lastReport,
                   finalReports, stopCalls, delivered, fetchLog, folded,
                   inserted>>

(***************************************************************************)
(* The ingestion goroutine: Start and processBlock.                        *)
(***************************************************************************)
\* line 177, err == nil
SubscribeOk ==
    /\ ~exited
    /\ pcIngest = "start"
    /\ sub' = "live"
    /\ pcIngest' = "select"
    /\ UNCHANGED <<extVars, stats, blockHistory, ctxDone, pcMain, pcReport, exited,
                   sigChan, subErr, cur, blockInfo, alerts, lastReport,
                   finalReports, stopCalls, delivered, fetchLog, folded,
                   inserted>>

\* lines 178-180: log.Fatalf ends the process at once
SubscribeFail ==
    /\ ~exited
    /\ pcIngest = "start"
    /\ exited' = TRUE
    /\ UNCHANGED <<extVars, stats, blockHistory, ctxDone, pcMain, pcIngest, pcReport,
                   sigChan, sub, subErr, cur, blockInfo, alerts, lastReport,
                   finalReports, stopCalls, delivered, fetchLog, folded,
                   inserted>>

\* lines 187-189: case err := <-sub.Err(); the deferred Unsubscribe runs
SelectErr ==
    /\ ~exited
    /\ pcIngest = "select"
    /\ subErr
    /\ subErr' = FALSE
    /\ sub' = "closed"
    /\ pcIngest' = "done"
    /\ UNCHANGED <<extVars, stats, blockHistory, ctxDone, pcMain, pcReport, exited,
                   sigChan, cur, blockInfo, alerts, lastReport, finalReports,
                   stopCalls, delivered, fetchLog, folded, inserted>>

\* lines 191-192 and 204: case header := <-headers; processBlock calls
\* BlockByHash
SelectHeader(header) ==
    /\ ~exited
    /\ pcIngest = "select"
    /\ sub = "live"
    /\ delivered < MaxHeaders
    /\ delivered' = delivered + 1
    /\ cur' = header
    /\ pcIngest' = "fetch"
    /\ UNCHANGED <<extVars, stats, blockHistory, ctxDone, pcMain, pcReport, exited,
                   sigChan, sub, subErr, blockInfo, alerts, lastReport,
                   finalReports, stopCalls, fetchLog, folded, inserted>>

\* lines 194-196: case <-m.ctx.Done(); the deferred Unsubscribe runs
SelectDone ==
    /\ ~exited
    /\ pcIngest = "select"
    /\ ctxDone
    /\ sub' = "closed"
    /\ pcIngest' = "done"
    /\ UNCHANGED <<extVars, stats, blockHistory, ctxDone, pcMain, pcReport, exited,
                   sigChan, subErr, cur, blockInfo, alerts, lastReport,
                   finalReports, stopCalls, delivered, fetchLog, folded,
                   inserted>>

\* A variant of FetchFail that treats the error as the end of the session.
FetchFailEndsLoop ==
    /\ ~exited
    /\ pcIngest = "fetch"
    /\ fetchLog' = Append(fetchLog, [header |-> cur, ok |-> FALSE])
    /\ cur' = NoHeader
    /\ sub' = "closed"
    /\ pcIngest' = "done"
    /\ UNCHANGED <<extVars, stats, blockHistory, ctxDone, pcMain, pcReport, exited,
                   sigChan, subErr, blockInfo, alerts, lastReport,
                   finalReports, stopCalls, delivered, folded, inserted>>

\* A variant of FetchFail that records the header's time before giving up.
FetchFailTouchingLastBlockTime ==
    /\ ~exited
    /\ pcIngest = "fetch"
    /\ fetchLog' = Append(fetchLog, [header |-> cur, ok |-> FALSE])
    /\ stats' = [stats EXCEPT !.LastBlockTime = cur.Time]
    /\ cur' = NoHeader
    /\ pcIngest' = "select"
    /\ UNCHANGED <<extVars, blockHistory, ctxDone, pcMain, pcReport, exited, sigChan,
                   sub, subErr, blockInfo, alerts, lastReport, finalReports,
                   stopCalls, delivered, folded, inserted>>

\* A variant of FetchFail that counts the block before giving up.
FetchFailCounted ==
    /\ ~exited
    /\ pcIngest = "fetch"
    /\ fetchLog' = Append(fetchLog, [header |-> cur, ok |-> FALSE])
    /\ stats' = updateStatsCount(stats)
    /\ cur' = NoHeader
    /\ pcIngest' = "select"
    /\ UNCHANGED <<extVars, blockHistory, ctxDone, pcMain, pcReport, exited, sigChan,
                   sub, subErr, blockInfo, alerts, lastReport, finalReports,
                   stopCalls, delivered, folded, inserted>>

\* lines 204-208: BlockByHash returns an error; processBlock logs and returns
FetchFail ==
    /\ ~exited
    /\ pcIngest = "fetch"
    /\ fetchLog' = Append(fetchLog, [header |-> cur, ok |-> FALSE])
    /\ cur' = NoHeader
    /\ pcIngest' = "select"
    /\ UNCHANGED <<extVars, stats, blockHistory, ctxDone, pcMain, pcReport, exited,
                   sigChan, sub, subErr, blockInfo, alerts, lastReport,
                   finalReports, stopCalls, delivered, folded,
                   inserted>>

\* lines 204-231: BlockByHash returns the block; the interval is computed,
\* LastBlockTime is set and blockInfo is built
FetchOk ==
    /\ ~exited
    /\ pcIngest = "fetch"
    /\ fetchLog' = Append(fetchLog, [header |-> cur, ok |-> TRUE])
    /\ blockInfo' = NewBlockInfo(cur, BlockTimeOf(cur, stats))
    /\ stats' = [stats EXCEPT !.LastBlockTime = cur.Time]
    /\ pcIngest' = "count"
    /\ UNCHANGED <<extVars, blockHistory, ctxDone, pcMain, pcReport, exited, sigChan,
                   sub, subErr, cur, alerts, lastReport, finalReports,
                   stopCalls, delivered, folded, inserted>>

\* line 234 into updateStats, line 271
UpdateStatsCount ==
    /\ ~exited
    /\ pcIngest = "count"
    /\ stats' = updateStatsCount(stats)
    /\ folded' = Append(folded, blockInfo)
    /\ pcIngest' = "totals"
    /\ UNCHANGED <<extVars, blockHistory, ctxDone, pcMain, pcReport, exited, sigChan,
                   sub, subErr, cur, blockInfo, alerts, lastReport,
                   finalReports, stopCalls, delivered, fetchLog, inserted>>

\* updateStats, lines 272-302
UpdateStatsRest ==
    /\ ~exited
    /\ pcIngest = "totals"
    /\ stats' = updateStatsRest(stats, blockInfo, blockHistory)
    /\ pcIngest' = "history"
    /\ UNCHANGED <<extVars, blockHistory, ctxDone, pcMain, pcReport, exited, sigChan,
                   sub, subErr, cur, blockInfo, alerts, lastReport,
                   finalReports, stopCalls, delivered, fetchLog, folded,
                   inserted>>

\* line 237: m.addToHistory(blockInfo)
AddToHistory ==
    /\ ~exited
    /\ pcIngest = "history"
    /\ blockHistory' = addToHistory(blockHistory, blockInfo)
    /\ inserted' = inserted + 1
    /\ pcIngest' = "alerts"
    /\ UNCHANGED <<extVars, stats, ctxDone, pcMain, pcReport, exited, sigChan, sub,
                   subErr, cur, blockInfo, alerts, lastReport, finalReports,
                   stopCalls, delivered, fetchLog, folded>>

\* lines 240-243: displayBlockInfo and checkAlerts; processBlock returns
CheckAlerts ==
    /\ ~exited
    /\ pcIngest = "alerts"
    /\ alerts' = alerts \o checkAlertsOn(monitor, blockInfo)
    /\ cur' = NoHeader
    /\ blockInfo' = <<>>
    /\ pcIngest' = "select"
    /\ UNCHANGED <<extVars, stats, blockHistory, ctxDone, pcMain, pcReport, exited,
                   sigChan, sub, subErr, lastReport, finalReports, stopCalls,
                   delivered, fetchLog, folded, inserted>>

(***************************************************************************)
(* The reporter goroutine: PeriodicReport.                                 *)
(***************************************************************************)
\* A reporter that takes a tick only between two blocks, as if report and
\* processBlock held a common lock that processBlock may keep for ever.
ReportTickBetweenBlocks ==
    /\ ~exited
    /\ pcReport = "wait"
    /\ pcIngest \in {"start", "select", "done"}
    /\ lastReport' = ReportSnapshot(stats, blockHistory)
    /\ UNCHANGED <<extVars, stats, blockHistory, ctxDone, pcMain, pcIngest,
                   pcReport, exited, sigChan, sub, subErr, cur, blockInfo,
                   alerts, finalReports, stopCalls, delivered, fetchLog,
                   folded, inserted>>

\* A report that sorts the window itself, not a copy of its block times.
RECURSIVE InsertByBlockTime(_, _)
InsertByBlockTime(h, b) ==
    IF h = <<>> THEN <<b>>
    ELSE IF b.BlockTime < Head(h).BlockTime THEN <<b>> \o h
         ELSE <<Head(h)>> \o InsertByBlockTime(Tail(h), b)

RECURSIVE SortByBlockTime(_)
SortByBlockTime(h) ==
    IF h = <<>> THEN <<>>
    ELSE InsertByBlockTime(SortByBlockTime(Tail(h)), Head(h))

ReportTickSortingWindow ==
    /\ ~exited
    /\ pcReport = "wait"
    /\ lastReport' = ReportSnapshot(stats, blockHistory)
    /\ blockHistory' = SortByBlockTime(blockHistory)
    /\ UNCHANGED <<extVars, stats, ctxDone, pcMain, pcIngest, pcReport,
                   exited, sigChan, sub, subErr, cur, blockInfo, alerts,
                   finalReports, stopCalls, delivered, fetchLog, folded,
                   inserted>>

\* lines 350-351: case <-ticker.C
ReportTick ==
    /\ ~exited
    /\ pcReport = "wait"
    /\ lastReport' = ReportSnapshot(stats, blockHistory)
    /\ UNCHANGED <<extVars, stats, blockHistory, ctxDone, pcMain, pcIngest, pcReport,
                   exited, sigChan, sub, subErr, cur, blockInfo, alerts,
                   finalReports, stopCalls, delivered, fetchLog, folded,
                   inserted>>

\* lines 352-353: case <-m.ctx.Done()
ReporterDone ==
    /\ ~exited
    /\ pcReport = "wait"
    /\ ctxDone
    /\ pcReport' = "done"
    /\ UNCHANGED <<extVars, stats, blockHistory, ctxDone, pcMain, pcIngest, exited,
                   sigChan, sub, subErr, cur, blockInfo, alerts, lastReport,
                   finalReports, stopCalls, delivered, fetchLog, folded,
                   inserted>>

(***************************************************************************)
(* The program.                                                            *)
(***************************************************************************)
Next ==
    \/ Signal
    \/ TransportError
    \/ MainRecvSignal
    \/ StopCancel
    \/ generateFinalReport
    \/ MainExit
    \/ SubscribeOk
    \/ SubscribeFail
    \/ SelectErr
    \/ \E header \in Headers : SelectHeader(header)
    \/ SelectDone
    \/ FetchFail
    \/ FetchOk
    \/ UpdateStatsCount
    \/ UpdateStatsRest
    \/ AddToHistory
    \/ CheckAlerts
    \/ ReportTick
    \/ ReporterDone

Spec == Init /\ [][Next]_vars

(***************************************************************************)
(* The history window on its own: addToHistory called again and again,     *)
(* with the records numbered in arrival order.                             *)
(***************************************************************************)
RecordNo(n) ==
    [ Number |-> n, Timestamp |-> n, TxCount |-> 0, GasUsed |-> 0,
      GasLimit |-> 100, BlockTime |-> 0 ]

InsertRecord ==
    /\ inserted < MaxInserts
    /\ blockHistory' = addToHistory(blockHistory, RecordNo(inserted + 1))
    /\ inserted' = inserted + 1
    /\ UNCHANGED <<extVars, stats, ctxDone, pcMain, pcIngest, pcReport, exited, sigChan,
                   sub, subErr, cur, blockInfo, alerts, lastReport,
                   finalReports, stopCalls, delivered, fetchLog, folded>>

SpecHistory == Init /\ [][InsertRecord]_vars

(***************************************************************************)
(* The monitor driven by a caller that may call Stop() more than once.     *)
(***************************************************************************)
NextStop ==
    \/ Next
    \/ StopAgain

SpecStop == Init /\ [][NextStop]_vars

(***************************************************************************)
(* The program under the scheduling the Go runtime gives the main          *)
(* goroutine: a runnable goroutine is eventually run.                      *)
(***************************************************************************)
FairSpec ==
    /\ Spec
    /\ WF_vars(MainRecvSignal)
    /\ WF_vars(StopCancel)
    /\ WF_vars(generateFinalReport)
    /\ WF_vars(MainExit)

(***************************************************************************)
(* The alert engine alone: checkAlerts applied to one record. The record,  *)
(* the statistics and the history window of the monitor are drawn at the   *)
(* thresholds of the rules and around them; a second monitor has the same  *)
(* rules and statistics and a history of its own.                          *)
(***************************************************************************)
AlertRecords ==
    { [Number |-> 7, Timestamp |-> 100, TxCount |-> tx, GasUsed |-> gas,
       GasLimit |-> 100, BlockTime |-> bt] :
        tx \in {0, 5, 200, 201, 250}, gas \in {0, 95, 96}, bt \in {0, 20, 21} }

AlertStats ==
    { NewMonitorStats,
      [NewMonitorStats EXCEPT !.BlockCount = 6, !.TotalTxs = 900,
                              !.MaxTxsPerBlock = 250, !.MinTxsPerBlock = 0,
                              !.AverageBlockTime = 30, !.LastBlockTime = 88] }

AlertHistories == { <<>>, <<RecordNo(6)>> }

InitAlerts ==
    /\ blockInfo \in AlertRecords
    /\ stats \in AlertStats
    /\ blockHistory \in AlertHistories
    /\ twinHistory \in AlertHistories
    /\ evaluated = FALSE
    /\ twinAlerts = <<>>
    /\ SubInit
    /\ PollInit
    /\ GasInit
    /\ alerts = <<>>
    /\ ctxDone = FALSE
    /\ pcMain = "wait"
    /\ pcIngest = "alerts"
    /\ pcReport = "wait"
    /\ exited = FALSE
    /\ sigChan = 0
    /\ sub = "live"
    /\ subErr = FALSE
    /\ cur = NoHeader
    /\ lastReport = <<>>
    /\ finalReports = <<>>
    /\ stopCalls = 0
    /\ delivered = 0
    /\ fetchLog = <<>>
    /\ folded = <<>>
    /\ inserted = 0

\* m.checkAlerts(blockInfo) on the monitor and on the second monitor
EvaluateAlerts ==
    /\ ~evaluated
    /\ alerts' = checkAlertsOn(monitor, blockInfo)
    /\ twinAlerts' =
          checkAlertsOn([stats |-> stats, blockHistory |-> twinHistory],
                        blockInfo)
    /\ evaluated' = TRUE
    /\ UNCHANGED <<subVars, pollVars, gasVars, twinHistory, stats, blockHistory,
                   ctxDone,
                   pcMain, pcIngest, pcReport, exited, sigChan, sub, subErr,
                   cur, blockInfo, lastReport, finalReports, stopCalls,
                   delivered, fetchLog, folded, inserted>>

SpecAlerts == InitAlerts /\ [][EvaluateAlerts]_vars

(***************************************************************************)
(* A session of four heads with the transaction counts 5, 250, 0 and 12.   *)
(* The second block uses 96 of 100 gas; the gas of the others and all the  *)
(* intervals are drawn up to the thresholds of the rules. Each head goes   *)
(* through processBlock as in the program.                                 *)
(***************************************************************************)
ScenarioTxCounts == <<5, 250, 0, 12>>

ScenarioHeader(n, gas, dt) ==
    [ Number   |-> n,
      Time     |-> (IF IsZero(stats.LastBlockTime) THEN 0
                    ELSE stats.LastBlockTime) + dt,
      TxCount  |-> ScenarioTxCounts[n],
      GasUsed  |-> IF n = 2 THEN 96 ELSE gas,
      GasLimit |-> 100 ]

InitScenario ==
    /\ ExtInit
    /\ stats = NewMonitorStats
    /\ blockHistory = <<>>
    /\ ctxDone = FALSE
    /\ pcMain = "wait"
    /\ pcIngest = "select"
    /\ pcReport = "wait"
    /\ exited = FALSE
    /\ sigChan = 0
    /\ sub = "live"
    /\ subErr = FALSE
    /\ cur = NoHeader
    /\ blockInfo = <<>>
    /\ alerts = <<>>
    /\ lastReport = <<>>
    /\ finalReports = <<>>
    /\ stopCalls = 0
    /\ delivered = 0
    /\ fetchLog = <<>>
    /\ folded = <<>>
    /\ inserted = 0

\* case header := <-m.headers, for the next head of the session
ScenarioSelectHeader ==
    /\ pcIngest = "select"
    /\ delivered < Len(ScenarioTxCounts)
    /\ \E gas \in {0, 50, 95}, dt \in {1, 20} :
          cur' = ScenarioHeader(delivered + 1, gas, dt)
    /\ delivered' = delivered + 1
    /\ pcIngest' = "fetch"
    /\ UNCHANGED <<extVars, stats, blockHistory, ctxDone, pcMain, pcReport,
                   exited, sigChan, sub, subErr, blockInfo, alerts, lastReport,
                   finalReports, stopCalls, fetchLog, folded, inserted>>

NextScenario ==
    \/ ScenarioSelectHeader
    \/ FetchOk
    \/ UpdateStatsCount
    \/ UpdateStatsRest
    \/ AddToHistory
    \/ CheckAlerts

SpecScenario == InitScenario /\ [][NextScenario]_vars

(***************************************************************************)
(* The basic subscriber, block_subscribe.go. Every subscribeNewHeads       *)
(* goroutine owns the handle it created; on a subscription error it        *)
(* sleeps, starts its successor and only then returns, which runs its      *)
(* deferred Unsubscribe.                                                   *)
(***************************************************************************)
notSubVars == <<monVars, alertVars, pollVars, gasVars>>

\* The goroutines a session can start: the first and one per transport error.
SubIds == 1..(MaxSubErrors + 1)

\* SIGINT or SIGTERM: signal.Notify drops it when the buffer is full
BsSignal ==
    /\ ~bsExited
    /\ bsSig' = 1
    /\ UNCHANGED <<notSubVars, bsAnalyzed, bsCtxDone, bsMain, bsExited, bsSubs, bsStats,
                   bsFinal, bsFatal, bsErrors, bsHeaders>>

\* the node or the connection fails: sub.Err() of a live handle is ready
BsTransportError(i) ==
    /\ ~bsExited
    /\ i \in DOMAIN bsSubs
    /\ bsErrors < MaxSubErrors
    /\ bsSubs[i].handle = "live"
    /\ ~bsSubs[i].err
    /\ bsSubs' = [bsSubs EXCEPT ![i].err = TRUE]
    /\ bsErrors' = bsErrors + 1
    /\ UNCHANGED <<notSubVars, bsAnalyzed, bsCtxDone, bsMain, bsSig, bsExited, bsStats,
                   bsFinal, bsFatal, bsHeaders>>

\* line 88: <-sigChan
BsMainRecvSignal ==
    /\ ~bsExited
    /\ bsMain = "wait"
    /\ bsSig = 1
    /\ bsSig' = 0
    /\ bsMain' = "cancel"
    /\ UNCHANGED <<notSubVars, bsAnalyzed, bsCtxDone, bsExited, bsSubs, bsStats, bsFinal,
                   bsFatal, bsErrors, bsHeaders>>

\* line 90: cancel()
BsCancel ==
    /\ ~bsExited
    /\ bsMain = "cancel"
    /\ bsCtxDone' = TRUE
    /\ bsMain' = "final"
    /\ UNCHANGED <<notSubVars, bsAnalyzed, bsSig, bsExited, bsSubs, bsStats, bsFinal,
                   bsFatal, bsErrors, bsHeaders>>

\* line 93: displayFinalStats(stats)
BsDisplayFinalStats ==
    /\ ~bsExited
    /\ bsMain = "final"
    /\ bsFinal' = Append(bsFinal, bsStats)
    /\ bsMain' = "return"
    /\ UNCHANGED <<notSubVars, bsAnalyzed, bsCtxDone, bsSig, bsExited, bsSubs, bsStats,
                   bsFatal, bsErrors, bsHeaders>>

\* main returns: the process ends, whatever the goroutines are doing
BsMainExit ==
    /\ ~bsExited
    /\ bsMain = "return"
    /\ bsExited' = TRUE
    /\ UNCHANGED <<notSubVars, bsAnalyzed, bsCtxDone, bsMain, bsSig, bsSubs, bsStats,
                   bsFinal, bsFatal, bsErrors, bsHeaders>>

\* line 110: SubscribeNewHead succeeds
BsSubscribeOk(i) ==
    /\ ~bsExited
    /\ i \in DOMAIN bsSubs
    /\ bsSubs[i].pc = "subscribe"
    /\ bsSubs' = [bsSubs EXCEPT ![i].pc = "select", ![i].handle = "live"]
    /\ UNCHANGED <<notSubVars, bsAnalyzed, bsCtxDone, bsMain, bsSig, bsExited, bsStats,
                   bsFinal, bsFatal, bsErrors, bsHeaders>>

\* lines 111-113: SubscribeNewHead fails, log.Fatalf ends the process
BsSubscribeFail(i) ==
    /\ ~bsExited
    /\ i \in DOMAIN bsSubs
    /\ bsSubs[i].pc = "subscribe"
    /\ bsFatal' = TRUE
    /\ bsExited' = TRUE
    /\ UNCHANGED <<notSubVars, bsAnalyzed, bsCtxDone, bsMain, bsSig, bsSubs, bsStats,
                   bsFinal, bsErrors, bsHeaders>>

\* lines 122-125: case err := <-sub.Err(); the goroutine logs and sleeps
BsSelectErr(i) ==
    /\ ~bsExited
    /\ i \in DOMAIN bsSubs
    /\ bsSubs[i].pc = "select"
    /\ bsSubs[i].err
    /\ bsSubs' = [bsSubs EXCEPT ![i].pc = "sleep"]
    /\ UNCHANGED <<notSubVars, bsAnalyzed, bsCtxDone, bsMain, bsSig, bsExited, bsStats,
                   bsFinal, bsFatal, bsErrors, bsHeaders>>

\* lines 126-128: the sleep is over; go subscribeNewHeads(...); return
BsResubscribe(i) ==
    /\ ~bsExited
    /\ i \in DOMAIN bsSubs
    /\ bsSubs[i].pc = "sleep"
    /\ bsSubs' = Append([bsSubs EXCEPT ![i].pc = "return"], NewSubscriber)
    /\ UNCHANGED <<notSubVars, bsAnalyzed, bsCtxDone, bsMain, bsSig, bsExited, bsStats,
                   bsFinal, bsFatal, bsErrors, bsHeaders>>

\* lines 130-132 and 143-144: case header := <-headers; BlockCount++
BsSelectHeader(i, header) ==
    /\ ~bsExited
    /\ i \in DOMAIN bsSubs
    /\ bsSubs[i].pc = "select"
    /\ bsSubs[i].handle = "live"
    /\ bsHeaders < MaxHeaders
    /\ bsHeaders' = bsHeaders + 1
    /\ bsStats' = [bsStats EXCEPT !.BlockCount = @ + 1]
    /\ bsSubs' = [bsSubs EXCEPT ![i].pc = "fetch", ![i].cur = header]
    /\ UNCHANGED <<notSubVars, bsAnalyzed, bsCtxDone, bsMain, bsSig, bsExited, bsFinal,
                   bsFatal, bsErrors>>

\* lines 153-157: BlockByHash fails; processNewHeader returns
BsFetchFail(i) ==
    /\ ~bsExited
    /\ i \in DOMAIN bsSubs
    /\ bsSubs[i].pc = "fetch"
    /\ bsSubs' = [bsSubs EXCEPT ![i].pc = "select", ![i].cur = NoHeader]
    /\ UNCHANGED <<notSubVars, bsAnalyzed, bsCtxDone, bsMain, bsSig, bsExited, bsStats,
                   bsFinal, bsFatal, bsErrors, bsHeaders>>

\* lines 153, 160 and 184-185: BlockByHash succeeds; analyzeBlock
BsFetchOk(i) ==
    /\ ~bsExited
    /\ i \in DOMAIN bsSubs
    /\ bsSubs[i].pc = "fetch"
    /\ bsAnalyzed' = bsAnalyzed + 1
    /\ bsStats' = [bsStats EXCEPT
                     !.TotalTxs = @ + bsSubs[i].cur.TxCount,
                     !.TotalGasUsed = @ + bsSubs[i].cur.GasUsed]
    /\ bsSubs' = [bsSubs EXCEPT ![i].pc = "select", ![i].cur = NoHeader]
    /\ UNCHANGED <<notSubVars, bsCtxDone, bsMain, bsSig, bsExited, bsFinal,
                   bsFatal, bsErrors, bsHeaders>>

\* lines 134-136: case <-ctx.Done(); return
BsSelectDone(i) ==
    /\ ~bsExited
    /\ i \in DOMAIN bsSubs
    /\ bsSubs[i].pc = "select"
    /\ bsCtxDone
    /\ bsSubs' = [bsSubs EXCEPT ![i].pc = "return"]
    /\ UNCHANGED <<notSubVars, bsAnalyzed, bsCtxDone, bsMain, bsSig, bsExited, bsStats,
                   bsFinal, bsFatal, bsErrors, bsHeaders>>

\* line 114: the deferred sub.Unsubscribe() runs as the goroutine returns
BsUnsubscribe(i) ==
    /\ ~bsExited
    /\ i \in DOMAIN bsSubs
    /\ bsSubs[i].pc = "return"
    /\ bsSubs' = [bsSubs EXCEPT ![i].pc = "done", ![i].handle = "released"]
    /\ UNCHANGED <<notSubVars, bsAnalyzed, bsCtxDone, bsMain, bsSig, bsExited, bsStats,
                   bsFinal, bsFatal, bsErrors, bsHeaders>>

NextSub ==
    \/ BsSignal
    \/ BsMainRecvSignal
    \/ BsCancel
    \/ BsDisplayFinalStats
    \/ BsMainExit
    \/ \E i \in SubIds : BsTransportError(i)
    \/ \E i \in SubIds : BsSubscribeOk(i)
    \/ \E i \in SubIds : BsSubscribeFail(i)
    \/ \E i \in SubIds : BsSelectErr(i)
    \/ \E i \in SubIds : BsResubscribe(i)
    \/ \E i \in SubIds, header \in Headers : BsSelectHeader(i, header)
    \/ \E i \in SubIds : BsFetchFail(i)
    \/ \E i \in SubIds : BsFetchOk(i)
    \/ \E i \in SubIds : BsSelectDone(i)
    \/ \E i \in SubIds : BsUnsubscribe(i)

SpecSub == Init /\ [][NextSub]_vars

(***************************************************************************)
(* The chain the polling programs watch. Between two ticks the head may    *)
(* advance by any number of blocks, and a re-org may move it back.         *)
(***************************************************************************)
notPollVars == <<monVars, alertVars, subVars, gasVars>>

ChainAdvance(h) ==
    /\ h > chainHead
    /\ chainHead' = h
    /\ UNCHANGED <<notPollVars, pbVars, evVars>>

ChainReorg ==
    /\ chainHead > StartBlock
    /\ chainHead' = chainHead - 1
    /\ UNCHANGED <<notPollVars, pbVars, evVars>>

(***************************************************************************)
(* The polling block monitor, part_006. The loop is one goroutine, so a    *)
(* tick is handled as a whole before the next select.                      *)
(***************************************************************************)
\* lines 87-90: processBlock for blockNum, blockNum+1, ..., currentBlock.
\* processBlock prints the block's number, time, hash, transaction count
\* and gas, or logs that BlockByNumber failed; the entry holds the number
\* and whether the fetch succeeded.
RECURSIVE CatchUp(_, _, _)
CatchUp(blockNum, currentBlock, failing) ==
    IF blockNum > currentBlock THEN <<>>
    ELSE <<[Number |-> blockNum, ok |-> blockNum \notin failing]>>
         \o CatchUp(blockNum + 1, currentBlock, failing)

\* The blocks above the last-seen position that the chain already has.
Waiting(last) == (last + 1)..chainHead

PbSignal ==
    /\ pbRunning
    /\ pbSig' = 1
    /\ UNCHANGED <<notPollVars, chainHead, evVars, pbLast, pbCount, pbRunning,
                   pbReported, pbProcessed, pbTickWork>>

\* lines 76-80: BlockNumber fails; log and continue
PbTickNumberFail ==
    /\ pbRunning
    /\ pbTickWork' = <<>>
    /\ UNCHANGED <<notPollVars, chainHead, evVars, pbLast, pbCount, pbRunning,
                   pbSig, pbReported, pbProcessed>>

\* lines 83-91: currentBlock > lastBlockNumber; the blocks of failing are
\* those whose BlockByNumber fails
PbTickNewBlocks(failing) ==
    /\ pbRunning
    /\ chainHead > pbLast
    /\ failing \subseteq Waiting(pbLast)
    /\ LET work == CatchUp(pbLast + 1, chainHead, failing)
       IN /\ pbTickWork' = work
          /\ pbProcessed' = pbProcessed \o work
          /\ pbCount' = pbCount + Len(work)
    /\ pbLast' = chainHead
    /\ UNCHANGED <<notPollVars, chainHead, evVars, pbRunning, pbSig, pbReported>>

\* A tick without new blocks that takes over the head it was told.
PbTickWaitFollowingHead ==
    /\ pbRunning
    /\ ~(chainHead > pbLast)
    /\ pbLast' = chainHead
    /\ pbTickWork' = <<>>
    /\ UNCHANGED <<notPollVars, chainHead, evVars, pbCount, pbRunning,
                   pbSig, pbReported, pbProcessed>>

\* lines 100-102: no new block
PbTickWait ==
    /\ pbRunning
    /\ ~(chainHead > pbLast)
    /\ pbTickWork' = <<>>
    /\ UNCHANGED <<notPollVars, chainHead, evVars, pbLast, pbCount, pbRunning,
                   pbSig, pbReported, pbProcessed>>

\* lines 104-115: case <-sigChan; the count is printed and main returns
PbStop ==
    /\ pbRunning
    /\ pbSig = 1
    /\ pbSig' = 0
    /\ pbReported' = Append(pbReported, pbCount)
    /\ pbRunning' = FALSE
    /\ UNCHANGED <<notPollVars, chainHead, evVars, pbLast, pbCount,
                   pbProcessed, pbTickWork>>

(***************************************************************************)
(* The polling mode of the event monitor, runPollingMode.                  *)
(***************************************************************************)
\* lines 229-233
FromBlock(last, current) ==
    LET fromBlock == last + 1
        toBlock == current
    IN IF toBlock - fromBlock > LookBack THEN toBlock - LookBack ELSE fromBlock

EvSignal ==
    /\ evRunning
    /\ evSig' = 1
    /\ UNCHANGED <<notPollVars, chainHead, pbVars, evLast, evRunning,
                   evQueries, evMissed>>

\* lines 220-224: BlockNumber fails; log and continue
EvTickNumberFail ==
    /\ evRunning
    /\ evMissed' = evMissed \cup Waiting(evLast)
    /\ UNCHANGED <<notPollVars, chainHead, pbVars, evLast, evRunning, evSig,
                   evQueries>>

\* A failed log query that moves the last-seen position all the same.
EvTickQueryFailAdvancing ==
    /\ evRunning
    /\ chainHead > evLast
    /\ evMissed' = evMissed \cup Waiting(evLast)
    /\ evLast' = chainHead
    /\ UNCHANGED <<notPollVars, chainHead, pbVars, evRunning, evSig, evQueries>>

\* lines 227-250: new blocks, and FilterLogs fails; log and continue
EvTickQueryFail ==
    /\ evRunning
    /\ chainHead > evLast
    /\ evMissed' = evMissed \cup Waiting(evLast)
    /\ UNCHANGED <<notPollVars, chainHead, pbVars, evLast, evRunning, evSig,
                   evQueries>>

\* lines 227-272: new blocks, FilterLogs succeeds, the events are handled
EvTickQueryOk ==
    /\ evRunning
    /\ chainHead > evLast
    /\ evQueries' = Append(evQueries,
                           [last      |-> evLast,
                            fromBlock |-> FromBlock(evLast, chainHead),
                            toBlock   |-> chainHead])
    /\ evLast' = chainHead
    /\ UNCHANGED <<notPollVars, chainHead, pbVars, evRunning, evSig, evMissed>>

\* lines 273-275: no new block
EvTickWait ==
    /\ evRunning
    /\ ~(chainHead > evLast)
    /\ UNCHANGED <<notPollVars, chainHead, pbVars, evVars>>

\* lines 277-280: case <-sigChan; runPollingMode returns
EvStop ==
    /\ evRunning
    /\ evSig = 1
    /\ evSig' = 0
    /\ evRunning' = FALSE
    /\ UNCHANGED <<notPollVars, chainHead, pbVars, evLast, evQueries, evMissed>>

NextChain ==
    \/ \E h \in (StartBlock + 1)..MaxPollHead : ChainAdvance(h)
    \/ ChainReorg

\* The polling block monitor and the chain.
NextPoll ==
    \/ NextChain
    \/ PbSignal
    \/ PbTickNumberFail
    \/ \E failing \in SUBSET ((StartBlock + 1)..MaxPollHead) :
          PbTickNewBlocks(failing)
    \/ PbTickWait
    \/ PbStop

SpecPoll == Init /\ [][NextPoll]_vars

\* The event monitor in polling mode and the chain.
NextEvents ==
    \/ NextChain
    \/ EvSignal
    \/ EvTickNumberFail
    \/ EvTickQueryFail
    \/ EvTickQueryOk
    \/ EvTickWait
    \/ EvStop

SpecEvents == Init /\ [][NextEvents]_vars

\* Both polling programs watching the same chain, over a shorter stretch
\* of it.
NextPolls ==
    \/ \E h \in (StartBlock + 1)..MaxBothHead : ChainAdvance(h)
    \/ ChainReorg
    \/ PbSignal
    \/ PbTickNumberFail
    \/ \E failing \in SUBSET ((StartBlock + 1)..MaxBothHead) :
          PbTickNewBlocks(failing)
    \/ PbTickWait
    \/ PbStop
    \/ EvSignal
    \/ EvTickNumberFail
    \/ EvTickQueryFail
    \/ EvTickQueryOk
    \/ EvTickWait
    \/ EvStop

SpecPolls == Init /\ [][NextPolls]_vars

(***************************************************************************)
(* calculateAverageGasPrice alone. tx.GasPrice() returns a copy of the     *)
(* transaction's price and is never nil; prices are not negative. big.Int  *)
(* does not overflow, and Div of non-negative operands truncates.          *)
(***************************************************************************)
NilPrice == -1

GasPrices == {0, 1, 2, 5}

RECURSIVE SumPrices(_)
SumPrices(txs) ==
    IF txs = <<>> THEN 0
    ELSE (IF Head(txs) # NilPrice THEN Head(txs) ELSE 0) + SumPrices(Tail(txs))

RECURSIVE CountPrices(_)
CountPrices(txs) ==
    IF txs = <<>> THEN 0
    ELSE (IF Head(txs) # NilPrice THEN 1 ELSE 0) + CountPrices(Tail(txs))

\* An average that rounds up.
calculateAverageGasPriceRoundingUp(txs) ==
    IF Len(txs) = 0 THEN 0
    ELSE IF CountPrices(txs) = 0 THEN 0
    ELSE (SumPrices(txs) + CountPrices(txs) - 1) \div CountPrices(txs)

\* lines 247-267
calculateAverageGasPrice(txs) ==
    IF Len(txs) = 0 THEN 0
    ELSE IF CountPrices(txs) = 0 THEN 0
    ELSE SumPrices(txs) \div CountPrices(txs)

\* The blocks of up to MaxTxs transactions.
TxLists == UNION {[1..n -> GasPrices] : n \in 0..MaxTxs}

InitGasPrice ==
    /\ gpTxs \in TxLists
    /\ gpDone = FALSE
    /\ gpResult = 0
    /\ AlertInit
    /\ SubInit
    /\ PollInit
    /\ stats = NewMonitorStats
    /\ blockHistory = <<>>
    /\ ctxDone = FALSE
    /\ pcMain = "wait"
    /\ pcIngest = "fetch"
    /\ pcReport = "wait"
    /\ exited = FALSE
    /\ sigChan = 0
    /\ sub = "live"
    /\ subErr = FALSE
    /\ cur = NoHeader
    /\ blockInfo = <<>>
    /\ alerts = <<>>
    /\ lastReport = <<>>
    /\ finalReports = <<>>
    /\ stopCalls = 0
    /\ delivered = 0
    /\ fetchLog = <<>>
    /\ folded = <<>>
    /\ inserted = 0

\* line 218: avgGasPrice := m.calculateAverageGasPrice(block.Transactions())
CalculateAverageGasPrice ==
    /\ ~gpDone
    /\ gpResult' = calculateAverageGasPrice(gpTxs)
    /\ gpDone' = TRUE
    /\ UNCHANGED <<monVars, alertVars, subVars, pollVars, gpTxs>>

SpecGasPrice == InitGasPrice /\ [][CalculateAverageGasPrice]_vars

(***************************************************************************)
(* Derived views of the ghosts.                                            *)
(***************************************************************************)
IsOk(e) == e.ok
IsErr(e) == ~e.ok

\* The headers whose fetch succeeded, in order.
Fetched == SelectSeq(fetchLog, IsOk)

\* The number of headers whose fetch failed.
Failed == Len(SelectSeq(fetchLog, IsErr))

\* A fetched block whose record updateStats has not yet counted.
PendingFold == IF pcIngest = "count" THEN 1 ELSE 0

Min(a, b) == IF a < b THEN a ELSE b

RECURSIVE SumTxCount(_)
SumTxCount(h) ==
    IF h = <<>> THEN 0 ELSE Head(h).TxCount + SumTxCount(Tail(h))

(***************************************************************************)
(* C1. MonitorStats.BlockCount equals the number of notifications whose    *)
(* block fetch succeeded and whose record updateStats folded; a            *)
(* notification whose fetch failed is not counted.                         *)
(***************************************************************************)
C1_BlockCountIsFoldedFetches ==
    /\ stats.BlockCount = Len(folded)
    /\ stats.BlockCount = Len(Fetched) - PendingFold
    /\ \A i \in 1..Len(folded) :
         /\ folded[i].Number = Fetched[i].header.Number
         /\ folded[i].Timestamp = Fetched[i].header.Time
    /\ stats.BlockCount + Failed <= delivered

C1_Witness ==
    /\ pcIngest = "select"
    /\ Failed >= 1
    /\ stats.BlockCount = 2

(***************************************************************************)
(* C2. The history window never holds more records than its capacity,      *)
(* however many times addToHistory has been called.                        *)
(***************************************************************************)
C2_HistoryBounded == Len(blockHistory) <= HistoryCap

C2_Witness ==
    /\ inserted > HistoryCap
    /\ Len(blockHistory) = HistoryCap

(***************************************************************************)
(* C3. After capacity + K insertions the window holds exactly the last     *)
(* `capacity` inserted records, in arrival order (before that, all of      *)
(* them).                                                                  *)
(***************************************************************************)
C3_WindowIsLastInserted ==
    LET n == Min(inserted, HistoryCap)
    IN blockHistory = [i \in 1..n |-> RecordNo(inserted - n + i)]

C3_Witness ==
    /\ inserted = HistoryCap + 5
    /\ blockHistory[1].Number = 6
    /\ blockHistory[HistoryCap].Number = HistoryCap + 5

(***************************************************************************)
(* C4. Records are folded in strictly ascending block-number order: a      *)
(* notification whose number is not greater than the last folded one is    *)
(* dropped, so no block is counted twice.                                  *)
(***************************************************************************)
C4_FoldedStrictlyAscending ==
    \A i, j \in 1..Len(folded) :
        i < j => folded[i].Number < folded[j].Number

(***************************************************************************)
(* C5. The history window never holds two records with the same block      *)
(* number.                                                                 *)
(***************************************************************************)
C5_NoDuplicateInWindow ==
    \A i, j \in 1..Len(blockHistory) :
        i # j => blockHistory[i].Number # blockHistory[j].Number

(***************************************************************************)
(* C6. The BlockTime of the first folded record is zero; that of every     *)
(* later record is its timestamp minus the timestamp of the previously     *)
(* fetched block (a block whose fetch failed is not a previous block); it  *)
(* is non-negative whenever the timestamps up to it do not decrease.       *)
(***************************************************************************)
C6_BlockInterval ==
    \A i \in 1..Len(folded) :
        /\ i = 1 => folded[i].BlockTime = 0
        /\ i > 1 => folded[i].BlockTime =
                      Fetched[i].header.Time - Fetched[i - 1].header.Time
        /\ (\A k \in 2..i : Fetched[k - 1].header.Time <= Fetched[k].header.Time)
             => folded[i].BlockTime >= 0

\* fetched, failed, fetched: the failed block (either time) lies between
\* the two folded ones
C6_Witness ==
    /\ Len(fetchLog) = 3
    /\ fetchLog[1].ok /\ ~fetchLog[2].ok /\ fetchLog[3].ok
    /\ fetchLog[1].header.Time = 10
    /\ fetchLog[2].header.Time = 40
    /\ fetchLog[3].header.Time = 40
    /\ Len(folded) = 2
    /\ folded[2].BlockTime = 30

(***************************************************************************)
(* C7. A notification whose block fetch fails changes neither              *)
(* MonitorStats (LastBlockTime included), nor the history window, nor the  *)
(* alert output; the ingestion loop is back at its select with the         *)
(* subscription untouched, ready for the next notification.                *)
(***************************************************************************)
C7_FetchFailureSkipsBlock ==
    [][ (Len(fetchLog') = Len(fetchLog) + 1 /\ ~fetchLog'[Len(fetchLog')].ok)
          => /\ stats' = stats
             /\ blockHistory' = blockHistory
             /\ alerts' = alerts
             /\ folded' = folded
             /\ pcIngest' = "select"
             /\ sub' = sub
             /\ ctxDone' = ctxDone ]_vars

\* a failed fetch, then the next notification processed to the end
C7_Witness ==
    /\ Len(fetchLog) = 2
    /\ ~fetchLog[1].ok /\ fetchLog[2].ok
    /\ pcIngest = "select"
    /\ stats.BlockCount = 1
    /\ Len(blockHistory) = 1
    /\ blockHistory[1].BlockTime = 0

(***************************************************************************)
(* C8. Stop() is idempotent: however many times it has been called, the    *)
(* final report has been emitted exactly once.                             *)
(***************************************************************************)
C8_StopEmitsOneFinalReport ==
    (stopCalls >= 1 /\ pcMain = "return") => Len(finalReports) = 1

(***************************************************************************)
(* C9. A shutdown signal that arrives while the monitor is running, once   *)
(* or repeatedly, leads to the ingestion loop and the reporter being       *)
(* halted and to exactly one final report, also when a fetch is in flight. *)
(***************************************************************************)
Halted == exited \/ (pcIngest = "done" /\ pcReport = "done")

C9_SignalStopsMonitorOnce ==
    /\ (sigChan = 1 /\ pcMain = "wait" /\ Running)
          ~> (Halted /\ Len(finalReports) = 1)
    /\ [](Len(finalReports) <= 1)

\* the signal came during a fetch, was raised again after main had taken
\* it, and the process ended with one final report
C9_Witness ==
    /\ exited
    /\ pcIngest = "fetch"
    /\ sigChan = 1
    /\ Len(finalReports) = 1

(***************************************************************************)
(* C10. A report never shows a partially folded record: what a periodic    *)
(* report prints counts exactly the records the window holds, and what a   *)
(* final report prints are the totals of the records it counts.            *)
(***************************************************************************)
C10_ReportsSeeWholeFolds ==
    /\ lastReport # <<>> =>
         /\ lastReport.HistoryLen = Min(lastReport.BlockCount, HistoryCap)
         /\ lastReport.TotalTxs =
              SumTxCount(SubSeq(folded, 1, lastReport.BlockCount))
    /\ \A k \in 1..Len(finalReports) :
         finalReports[k].TotalTxs =
           SumTxCount(SubSeq(folded, 1, finalReports[k].BlockCount))

(***************************************************************************)
(* C12. When the subscription's error channel has fired and Start has      *)
(* returned, the final report is eventually emitted and the process        *)
(* completes, with no shutdown signal needed.                              *)
(***************************************************************************)
\* Start has returned on a transport error: the context is not cancelled.
EndedByTransportError == pcIngest = "done" /\ ~ctxDone

C12_TransportErrorEndsSession ==
    EndedByTransportError ~> (Len(finalReports) >= 1 /\ exited)

RuleIndex(rule) == CHOOSE i \in 1..Len(AlertRules) : AlertRules[i] = rule

\* How often the output names the rule.
TimesFired(out, rule) == Cardinality({i \in 1..Len(out) : out[i][1] = rule})

C13_EveryTrueRuleFiresOnceInOrder ==
    evaluated =>
        /\ \A i \in 1..Len(AlertRules) :
             TimesFired(alerts, AlertRules[i]) =
               IF Condition(AlertRules[i], blockInfo, stats) THEN 1 ELSE 0
        /\ \A i \in 1..Len(alerts) :
             /\ alerts[i][2] = blockInfo.Number
             /\ \E k \in 1..Len(AlertRules) : alerts[i][1] = AlertRules[k]
        /\ \A i, j \in 1..Len(alerts) :
             i < j => RuleIndex(alerts[i][1]) < RuleIndex(alerts[j][1])

\* A record on which three rules fire, the first of the list among them.
C13_Witness ==
    /\ evaluated
    /\ Len(alerts) = 3
    /\ alerts[1][1] = "HighTx"

ScenarioAlerts == << <<"HighTx", 2>>, <<"HighGas", 2>>, <<"EmptyBlock", 3>> >>

\* The alerts of the blocks numbered up to n.
ScenarioAlertsUpTo(n) ==
    SelectSeq(ScenarioAlerts, LAMBDA a : a[2] <= n)

\* The blocks whose checkAlerts has returned.
AlertChecked == IF pcIngest = "select" THEN delivered ELSE delivered - 1

C15_ScenarioAlerts == alerts = ScenarioAlertsUpTo(AlertChecked)

\* The whole session is processed, with a block at exactly 95% gas and an
\* interval of exactly 20 seconds in it.
C15_Witness ==
    /\ delivered = Len(ScenarioTxCounts)
    /\ pcIngest = "select"
    /\ alerts = ScenarioAlerts
    /\ \E i \in 1..Len(folded) : folded[i].GasUsed = 95
    /\ \E i \in 1..Len(folded) : folded[i].BlockTime = 20

(***************************************************************************)
(* C11. Reconnection of the basic subscriber is bounded: after a           *)
(* subscription error it starts at most two new subscriptions, and when a  *)
(* new subscription fails the process still ends with exactly one final    *)
(* report.                                                                 *)
(***************************************************************************)
\* subscribeNewHeads goroutines started after a subscription error.
Reconnects == Len(bsSubs) - 1

C11_ReconnectIsBounded ==
    /\ Reconnects <= 2
    /\ (bsExited /\ Reconnects >= 1) => Len(bsFinal) = 1

(***************************************************************************)
(* C19. The basic subscriber never holds more than one subscription        *)
(* handle that it has not released: the handle of the failed subscription  *)
(* is released before its replacement is created.                          *)
(***************************************************************************)
\* The handles created by SubscribeNewHead and not yet unsubscribed.
HeldHandles == {i \in DOMAIN bsSubs : bsSubs[i].handle = "live"}

C19_AtMostOneHandleHeld == Cardinality(HeldHandles) <= 1

(***************************************************************************)
(* C16. A tick of the polling block monitor that finds three new blocks    *)
(* above the last-seen position processes them in ascending order, each    *)
(* once, and computes two block intervals: one for the second and one for  *)
(* the third block.                                                        *)
(***************************************************************************)
\* The block numbers of the processBlock calls of a tick, in order.
NumbersOf(work) == [i \in 1..Len(work) |-> work[i].Number]

\* The processed blocks for which an interval to the previous block exists.
IntervalsComputed(work) ==
    Cardinality({i \in 1..Len(work) : "Interval" \in DOMAIN work[i]})

C16_ThreeBlocksTwoIntervals ==
    (Len(pbTickWork) = 3 /\ pbTickWork[1].Number = StartBlock + 1) =>
        /\ NumbersOf(pbTickWork) =
             <<StartBlock + 1, StartBlock + 2, StartBlock + 3>>
        /\ IntervalsComputed(pbTickWork) = 2

(***************************************************************************)
(* C17. One tick of the polling block monitor processes at most as many    *)
(* blocks as the look-back allows, however far the head has advanced.      *)
(***************************************************************************)
C17_TickWorkBounded == Len(pbTickWork) <= LookBack + 1

(***************************************************************************)
(* C18. In the event monitor's polling mode a failed request leaves the    *)
(* last-seen position alone and the loop running, and a block that was     *)
(* waiting when the request failed is covered by a later successful query. *)
(***************************************************************************)
\* The blocks whose logs a successful FilterLogs query has returned.
EvCovered ==
    UNION {evQueries[i].fromBlock..evQueries[i].toBlock : i \in DOMAIN evQueries}

\* The successful queries that moved the last-seen position past block b.
PassedBy(b) ==
    {i \in DOMAIN evQueries : evQueries[i].last < b /\ b <= evQueries[i].toBlock}

IngestionWrite ==
    FetchOk \/ UpdateStatsCount \/ UpdateStatsRest \/ AddToHistory

C21_OnlyIngestionMutates ==
    [][ /\ (ReportTick \/ generateFinalReport \/ CheckAlerts) =>
             (stats' = stats /\ blockHistory' = blockHistory)
        /\ (stats' # stats \/ blockHistory' # blockHistory) => IngestionWrite
      ]_vars

\* A periodic report, an alert and a final report were all produced over a
\* window of two records that are not in block-time order.
C21_Witness ==
    /\ lastReport # <<>>
    /\ lastReport.HistoryLen = 2
    /\ Len(blockHistory) = 2
    /\ blockHistory[2].BlockTime < blockHistory[1].BlockTime
    /\ alerts # <<>>
    /\ Len(finalReports) >= 1

(***************************************************************************)
(* C22. The reporter and the ingestion loop do not wait for each other:    *)
(* while the reporter runs, a timer tick produces a report whatever the    *)
(* ingestion goroutine is doing and whether or not a head has arrived, and *)
(* every step of the ingestion goroutine can be taken whatever the         *)
(* reporter is doing.                                                      *)
(***************************************************************************)
C22_ReporterAndIngestionIndependent ==
    ~exited =>
        /\ pcReport = "wait" => ENABLED ReportTick
        /\ pcIngest = "start" => ENABLED (SubscribeOk \/ SubscribeFail)
        /\ (pcIngest = "select" /\ delivered < MaxHeaders) =>
             ENABLED (\E header \in Headers : SelectHeader(header))
        /\ pcIngest = "fetch" => ENABLED (FetchOk \/ FetchFail)
        /\ pcIngest = "count" => ENABLED UpdateStatsCount
        /\ pcIngest = "totals" => ENABLED UpdateStatsRest
        /\ pcIngest = "history" => ENABLED AddToHistory
        /\ pcIngest = "alerts" => ENABLED CheckAlerts

\* A report was printed before any head had arrived, and the reporter is
\* still waiting for its next tick while a block is inside updateStats.
C22_Witness ==
    /\ ~exited
    /\ lastReport # <<>>
    /\ lastReport.BlockCount = 0
    /\ pcReport = "wait"
    /\ pcIngest = "totals"
    /\ Len(folded) = 2

(***************************************************************************)
(* C23. After every fold (updateStats, then addToHistory) AverageBlockTime *)
(* is the mean of the positive block intervals of the records the window   *)
(* holds at that moment, the record just folded included.                  *)
(***************************************************************************)
\* processBlock is past addToHistory, or back at the select after a fold.
FoldComplete == pcIngest \in {"alerts", "select"} /\ inserted >= 1

C23_AverageOverCurrentWindow ==
    (FoldComplete /\ CountBlockTime(blockHistory) > 0) =>
        stats.AverageBlockTime =
            SumBlockTime(blockHistory) \div CountBlockTime(blockHistory)

(***************************************************************************)
(* C24. Whenever BlockCount is at least 1 the running extremes are the     *)
(* true extremes of all folded records: the least and the greatest TxCount *)
(* and the least and the greatest GasUsed; so the minimum never exceeds    *)
(* the maximum.                                                            *)
(***************************************************************************)
TxCountsFolded == {folded[i].TxCount : i \in 1..Len(folded)}
GasUsedFolded == {folded[i].GasUsed : i \in 1..Len(folded)}

LeastOf(S) == CHOOSE x \in S : \A y \in S : x <= y
GreatestOf(S) == CHOOSE x \in S : \A y \in S : y <= x

C24_ExtremesAreTrueExtremes ==
    stats.BlockCount >= 1 =>
        /\ stats.MinTxsPerBlock = LeastOf(TxCountsFolded)
        /\ stats.MaxTxsPerBlock = GreatestOf(TxCountsFolded)
        /\ stats.MinGasUsage = LeastOf(GasUsedFolded)
        /\ stats.MaxGasUsage = GreatestOf(GasUsedFolded)
        /\ stats.MinTxsPerBlock <= stats.MaxTxsPerBlock
        /\ stats.MinGasUsage <= stats.MaxGasUsage

(***************************************************************************)
(* C25. MonitorStats is never reset: between folds TotalTxs is the sum of  *)
(* TxCount and TotalGasUsed the sum of GasUsed over all folded records,    *)
(* and no step decreases BlockCount, TotalTxs or TotalGasUsed.             *)
(***************************************************************************)
RECURSIVE SumGasUsed(_)
SumGasUsed(h) ==
    IF h = <<>> THEN 0 ELSE Head(h).GasUsed + SumGasUsed(Tail(h))

\* updateStats is not between its first line and its end.
BetweenFolds == pcIngest # "totals"

C25_TotalsNeverReset ==
    /\ [](BetweenFolds =>
            /\ stats.BlockCount = Len(folded)
            /\ stats.TotalTxs = SumTxCount(folded)
            /\ stats.TotalGasUsed = SumGasUsed(folded))
    /\ [][ /\ stats'.BlockCount >= stats.BlockCount
           /\ stats'.TotalTxs >= stats.TotalTxs
           /\ stats'.TotalGasUsed >= stats.TotalGasUsed ]_vars

\* Three folds, two of them of the busy block, and a final report.
C25_Witness ==
    /\ pcIngest = "select"
    /\ Len(folded) = 3
    /\ stats.TotalTxs = 500
    /\ stats.TotalGasUsed = 192
    /\ Len(finalReports) >= 1

(***************************************************************************)
(* C26. calculateAverageGasPrice returns zero for a block without          *)
(* transactions; otherwise it returns the floor of the sum of the gas      *)
(* prices divided by the number of transactions, which lies between the    *)
(* least and the greatest gas price of the block.                          *)
(***************************************************************************)
PricesOf(txs) == {txs[i] : i \in 1..Len(txs)}

C26_AverageGasPriceIsFloorOfMean ==
    gpDone =>
        /\ Len(gpTxs) = 0 => gpResult = 0
        /\ Len(gpTxs) > 0 =>
             /\ gpResult * Len(gpTxs) <= SumPrices(gpTxs)
             /\ SumPrices(gpTxs) < (gpResult + 1) * Len(gpTxs)
             /\ LeastOf(PricesOf(gpTxs)) <= gpResult
             /\ gpResult <= GreatestOf(PricesOf(gpTxs))

\* Three transactions whose prices do not divide evenly: 1, 2, 5 give 2.
C26_Witness ==
    /\ gpDone
    /\ Len(gpTxs) = 3
    /\ SumPrices(gpTxs) = 8
    /\ gpResult = 2

(***************************************************************************)
(* C27. In the basic subscriber a header whose block fetch fails is not    *)
(* counted: whenever no header is being processed, BlockStats.BlockCount   *)
(* is the number of blocks whose transactions were added to TotalTxs.      *)
(***************************************************************************)
\* No subscribeNewHeads goroutine is inside processNewHeader.
NoHeaderInProcess == \A i \in DOMAIN bsSubs : bsSubs[i].pc # "fetch"

C27_FailedFetchNotCounted ==
    NoHeaderInProcess => bsStats.BlockCount = bsAnalyzed

(***************************************************************************)
(* C28. The block count the polling block monitor prints at shutdown is    *)
(* the number of blocks it fetched and processed; a block whose            *)
(* BlockByNumber call failed is not in it.                                 *)
(***************************************************************************)
IsFetched(e) == e.ok

C28_ReportedCountIsFetchedBlocks ==
    \A k \in 1..Len(pbReported) :
        pbReported[k] = Len(SelectSeq(pbProcessed, IsFetched))

(***************************************************************************)
(* C29. Every successful log query of the event monitor's polling mode     *)
(* covers at most 5 block numbers, ends at the current block and starts    *)
(* above the last-seen position.                                           *)
(***************************************************************************)
C29_QueryCoversAtMostLookBack ==
    \A i \in DOMAIN evQueries :
        /\ evQueries[i].toBlock - evQueries[i].fromBlock + 1 <= LookBack
        /\ evQueries[i].fromBlock > evQueries[i].last
        /\ evQueries[i].fromBlock <= evQueries[i].toBlock

(***************************************************************************)
(* C30. In both polling loops the last-seen block number never decreases;  *)
(* it changes only in a tick whose requests succeeded and found the        *)
(* current block above it, and then becomes the current block; a tick      *)
(* that finds the current block at or below it, also after the head moved  *)
(* back, changes nothing and processes no block.                           *)
(***************************************************************************)
\* What a step does to the two last-seen positions.
LastSeenStep ==
    /\ pbLast' >= pbLast
    /\ evLast' >= evLast
    /\ pbLast' # pbLast =>
         /\ chainHead > pbLast
         /\ pbLast' = chainHead
         /\ \E failing \in SUBSET Waiting(pbLast) : PbTickNewBlocks(failing)
    /\ evLast' # evLast =>
         /\ chainHead > evLast
         /\ evLast' = chainHead
         /\ EvTickQueryOk
    /\ PbTickWait =>
         (pbLast' = pbLast /\ pbProcessed' = pbProcessed /\ pbCount' = pbCount)
    /\ EvTickWait => (evLast' = evLast /\ evQueries' = evQueries)
    /\ (PbTickNumberFail \/ EvTickNumberFail \/ EvTickQueryFail) =>
         (pbLast' = pbLast /\ evLast' = evLast)

====
